---- MODULE Spec2Model ----
(***************************************************************************)
(* Factory / offspring registration protocol of secret-factory-contract.  *)
(* The factory contract (src/factory/src/contract.rs) is modelled at its   *)
(* message boundary: every handle message is one atomic action, its        *)
(* arguments and its sender drawn from small sets.  A handler that returns *)
(* Err leaves the storage as it was (the host reverts the transaction);    *)
(* in this contract every Err is returned before the first write.          *)
(***************************************************************************)
EXTENDS Integers, Sequences, FiniteSets, TLC

\* ------------------------------------------------------------------ bounds
\* number of CreateOffspring calls explored under Spec (caps config.index);
\* SpecTwo explores one more
MaxCreates == 1

\* size of the modelled 32-byte value space (seeds, passwords, key hashes)
HashMod == 2

\* addresses (senders, owners, offspring); address 0 instantiates the factory
Addr == {0, 1}
HashSpace == 0 .. (HashMod - 1)
\* indices a message may name when n indices have been issued
Indices(n) == 0 .. (n - 1)
IndexSpace == Indices(MaxCreates)
WideIndexSpace == Indices(MaxCreates + 1)
\* entropy strings a caller may supply
EntropySpace == {0, 1}
\* block heights / block times of the environment
BlockSpace == {0, 1}
\* offspring code ids the admin may install
CodeIds == {1, 2}

\* number of offspring created, registered and deactivated under SpecLog (caps
\* the length of the inactive log)
MaxLog == 3
\* largest page_size a ListInactiveOffspring query names
MaxPageSize == 3

\* Option<T>: None is the empty sequence, Some(x) the one-element sequence
None == <<>>
Some(x) == <<x>>

\* the all-zero hash is_key_valid compares with when no key is stored
ZeroKey == 0
\* quant of try_list_inactive when no page_size is given
DefaultPageSize == 200
\* QueryMsg::ListInactiveOffspring arguments
Befores == {None} \cup {Some(n) : n \in 0 .. (MaxLog + 1)}
PageSizes == {None} \cup {Some(n) : n \in 0 .. MaxPageSize}
\* FilterTypes, and no filter
Filters == {None, Some("Active"), Some("Inactive"), Some("All")}

VARIABLES
    config,          \* CONFIG_KEY: [version, index, stopped, admin]
    prng_seed,       \* PRNG_SEED_KEY
    pending,         \* PENDING_KEY: Option<password>
    active,          \* ACTIVE_KEY: HashSet<u32>
    active_info,     \* PREFIX_ACTIVE_INFO: index -> [address, password]
    owners_active,   \* PREFIX_OWNERS_ACTIVE: owner -> HashSet<u32> (partial)
    inactive_info,   \* PREFIX_INACTIVE_INFO: AppendStore of [address, password]
    owners_inactive, \* PREFIX_OWNERS_INACTIVE: owner -> AppendStore of u32
    viewing_keys,    \* PREFIX_VIEW_KEY: address -> hashed key (partial)
    response,        \* what the last handle call returned
    records,         \* history: every successful registration, in order:
                     \*   [index, address, owner, password]
    cur,             \* history: index -> position in records of the record whose
                     \*   info is stored under that index in active_info
    log_rid,         \* history: position in records of each inactive_info entry
    issued,          \* history: Option<password> issued by the latest successful
                     \*   CreateOffspring, None once a RegisterOffspring succeeded
    queried,         \* the last query: Option<[msg, answer, checked]>, checked the
                     \*   stored values the candidate key was hashed and compared with
    state,           \* offspring, the singleton config(): Option<State>
    raw_config,      \* offspring, the raw storage key CONFIG_KEY: Option<State>
    offspring_response, \* offspring: what its last init or handle call returned
    asked            \* history: the owner has sent Deactivate to the offspring
                     \*   after its init

storage == <<config, prng_seed, pending, active, active_info, owners_active,
             inactive_info, owners_inactive, viewing_keys>>
history == <<records, cur, log_rid, issued>>
offspring_vars == <<state, raw_config, offspring_response, asked>>
vars == <<config, prng_seed, pending, active, active_info, owners_active,
          inactive_info, owners_inactive, viewing_keys, response,
          records, cur, log_rid, issued, queried,
          state, raw_config, offspring_response, asked>>

\* ------------------------------------------------------------- primitives
\* Env as the handlers read it
Env(height, time, sender) == [height |-> height, time |-> time, sender |-> sender]

RECURSIVE SeqSum(_)
SeqSum(s) == IF s = <<>> THEN 0 ELSE Head(s) + SeqSum(Tail(s))

\* rand.rs: one-way hash onto the 32-byte value space
sha_256(x) == (x + 1) % HashMod

\* rand.rs: Prng::new(seed, entropy).rand_bytes()
Prng_rand_bytes(seed, rng_entropy) ==
    sha_256((2 * seed + SeqSum(rng_entropy)) % HashMod)

\* height || time || sender || entropy, then one draw of the generator
new_entropy(env, seed, entropy) ==
    Prng_rand_bytes(seed, <<env.height, env.time, env.sender, entropy>>)

\* a storage prefix with nothing stored under it
EmptyMap == [x \in {} |-> x]
\* a map with key k set to v (storage set under a prefix)
Put(f, k, v) == [x \in (DOMAIN f) \cup {k} |-> IF x = k THEN v ELSE f[x]]
\* a map with key k removed (storage remove under a prefix)
Del(f, k) == [x \in (DOMAIN f) \ {k} |-> f[x]]

\* HandleResult
Ok(op, log, messages) ==
    [op |-> op, status |-> "Ok", text |-> log, messages |-> messages]
Err(op, msg) ==
    [op |-> op, status |-> "Err", text |-> msg, messages |-> <<>>]

\* ------------------------------------------------------------------- init
init(env, entropy, offspring_contract) ==
    /\ config = [version |-> offspring_contract, index |-> 0,
                 stopped |-> FALSE, admin |-> env.sender]
    /\ prng_seed = sha_256(entropy)
    /\ active = {}
    /\ pending = None
    /\ active_info = EmptyMap
    /\ owners_active = EmptyMap
    /\ inactive_info = <<>>
    /\ owners_inactive = [a \in Addr |-> <<>>]
    /\ viewing_keys = EmptyMap
    /\ response = Ok("Init", "", <<>>)
    /\ records = <<>>
    /\ cur = EmptyMap
    /\ log_rid = <<>>
    /\ issued = None

\* the sender of the init message, which init records as the admin
InitAdmin == 0

\* an offspring that has not been instantiated has returned nothing
NoResponse == [op |-> "", status |-> "", text |-> "", messages |-> <<>>]

\* the factory after its init; no offspring instantiated yet
Init ==
    /\ \E entropy \in EntropySpace : init(Env(0, 0, InitAdmin), entropy, 1)
    /\ queried = None
    /\ state = None
    /\ raw_config = None
    /\ offspring_response = NoResponse
    /\ asked = FALSE

\* ----------------------------------------------------------- CreateOffspring
\* CreateOffspring that stores the generator's bytes as the ticket instead of
\* the password it dispatches
try_create_offspring_raw_ticket(env, entropy, owner) ==
    IF config.stopped
    THEN /\ response' = Err("CreateOffspring", "The factory has been stopped")
         /\ UNCHANGED <<storage, history>>
    ELSE LET new_prng_bytes == new_entropy(env, prng_seed, entropy)
             password == sha_256(new_prng_bytes)
             initmsg == [index |-> config.index, password |-> password,
                         owner |-> owner, code_id |-> config.version]
         IN /\ prng_seed' = new_prng_bytes
            /\ pending' = Some(new_prng_bytes)
            /\ config' = [config EXCEPT !.index = config.index + 1]
            /\ response' = Ok("CreateOffspring", "", <<initmsg>>)
            /\ issued' = Some(initmsg.password)
            /\ UNCHANGED <<active, active_info, owners_active, inactive_info,
                           owners_inactive, viewing_keys, records, cur, log_rid>>

\* CreateOffspring that leaves a ticket that is still pending in place
try_create_offspring_keeps_pending(env, entropy, owner) ==
    IF config.stopped
    THEN /\ response' = Err("CreateOffspring", "The factory has been stopped")
         /\ UNCHANGED <<storage, history>>
    ELSE LET new_prng_bytes == new_entropy(env, prng_seed, entropy)
             password == sha_256(new_prng_bytes)
             initmsg == [index |-> config.index, password |-> password,
                         owner |-> owner, code_id |-> config.version]
         IN /\ prng_seed' = new_prng_bytes
            /\ pending' = IF pending = None THEN Some(password) ELSE pending
            /\ config' = [config EXCEPT !.index = config.index + 1]
            /\ response' = Ok("CreateOffspring", "", <<initmsg>>)
            /\ issued' = Some(initmsg.password)
            /\ UNCHANGED <<active, active_info, owners_active, inactive_info,
                           owners_inactive, viewing_keys, records, cur, log_rid>>

\* CreateOffspring without the test of the stopped flag
try_create_offspring_ignores_stop(env, entropy, owner) ==
    LET new_prng_bytes == new_entropy(env, prng_seed, entropy)
        password == sha_256(new_prng_bytes)
        initmsg == [index |-> config.index, password |-> password,
                    owner |-> owner, code_id |-> config.version]
    IN /\ prng_seed' = new_prng_bytes
       /\ pending' = Some(password)
       /\ config' = [config EXCEPT !.index = config.index + 1]
       /\ response' = Ok("CreateOffspring", "", <<initmsg>>)
       /\ issued' = Some(initmsg.password)
       /\ UNCHANGED <<active, active_info, owners_active, inactive_info,
                      owners_inactive, viewing_keys, records, cur, log_rid>>

try_create_offspring_activates(env, entropy, owner) ==
    IF config.stopped
    THEN /\ response' = Err("CreateOffspring", "The factory has been stopped")
         /\ UNCHANGED <<storage, history>>
    ELSE LET new_prng_bytes == new_entropy(env, prng_seed, entropy)
             password == sha_256(new_prng_bytes)
             initmsg == [index |-> config.index, password |-> password,
                         owner |-> owner, code_id |-> config.version]
         IN /\ prng_seed' = new_prng_bytes
            /\ pending' = Some(password)
            /\ config' = [config EXCEPT !.index = config.index + 1]
            /\ active' = active \cup {config.index}
            /\ response' = Ok("CreateOffspring", "", <<initmsg>>)
            /\ issued' = Some(initmsg.password)
            /\ UNCHANGED <<active_info, owners_active, inactive_info,
                           owners_inactive, viewing_keys, records, cur, log_rid>>

try_create_offspring_keeps_seed(env, entropy, owner) ==
    IF config.stopped
    THEN /\ response' = Err("CreateOffspring", "The factory has been stopped")
         /\ UNCHANGED <<storage, history>>
    ELSE LET new_prng_bytes == new_entropy(env, prng_seed, entropy)
             password == sha_256(new_prng_bytes)
             initmsg == [index |-> config.index, password |-> password,
                         owner |-> owner, code_id |-> config.version]
         IN /\ pending' = Some(password)
            /\ config' = [config EXCEPT !.index = config.index + 1]
            /\ response' = Ok("CreateOffspring", "", <<initmsg>>)
            /\ issued' = Some(initmsg.password)
            /\ UNCHANGED <<prng_seed, active, active_info, owners_active,
                           inactive_info, owners_inactive, viewing_keys,
                           records, cur, log_rid>>

try_create_offspring_keeps_index(env, entropy, owner) ==
    IF config.stopped
    THEN /\ response' = Err("CreateOffspring", "The factory has been stopped")
         /\ UNCHANGED <<storage, history>>
    ELSE LET new_prng_bytes == new_entropy(env, prng_seed, entropy)
             password == sha_256(new_prng_bytes)
             initmsg == [index |-> config.index, password |-> password,
                         owner |-> owner, code_id |-> config.version]
         IN /\ prng_seed' = new_prng_bytes
            /\ pending' = Some(password)
            /\ response' = Ok("CreateOffspring", "", <<initmsg>>)
            /\ issued' = Some(initmsg.password)
            /\ UNCHANGED <<config, active, active_info, owners_active,
                           inactive_info, owners_inactive, viewing_keys,
                           records, cur, log_rid>>

try_create_offspring_sends_next(env, entropy, owner) ==
    IF config.stopped
    THEN /\ response' = Err("CreateOffspring", "The factory has been stopped")
         /\ UNCHANGED <<storage, history>>
    ELSE LET new_prng_bytes == new_entropy(env, prng_seed, entropy)
             password == sha_256(new_prng_bytes)
             initmsg == [index |-> config.index + 1, password |-> password,
                         owner |-> owner, code_id |-> config.version]
         IN /\ prng_seed' = new_prng_bytes
            /\ pending' = Some(password)
            /\ config' = [config EXCEPT !.index = config.index + 1]
            /\ response' = Ok("CreateOffspring", "", <<initmsg>>)
            /\ issued' = Some(initmsg.password)
            /\ UNCHANGED <<active, active_info, owners_active, inactive_info,
                           owners_inactive, viewing_keys, records, cur, log_rid>>

try_create_offspring(env, entropy, owner) ==
    IF config.stopped
    THEN /\ response' = Err("CreateOffspring", "The factory has been stopped")
         /\ UNCHANGED <<storage, history>>
    ELSE LET new_prng_bytes == new_entropy(env, prng_seed, entropy)
             password == sha_256(new_prng_bytes)
             initmsg == [index |-> config.index, password |-> password,
                         owner |-> owner, code_id |-> config.version]
         IN /\ prng_seed' = new_prng_bytes
            /\ pending' = Some(password)
            /\ config' = [config EXCEPT !.index = config.index + 1]
            /\ response' = Ok("CreateOffspring", "", <<initmsg>>)
            /\ issued' = Some(initmsg.password)
            /\ UNCHANGED <<active, active_info, owners_active, inactive_info,
                           owners_inactive, viewing_keys, records, cur, log_rid>>

\* --------------------------------------------------------- RegisterOffspring
\* RegisterOffspring without the comparison of the password with the ticket
try_register_offspring_any_password(env, owner, index, password) ==
    IF pending = None
    THEN /\ response' = Err("RegisterOffspring", "Unable to authenticate registration.")
         /\ UNCHANGED <<storage, history>>
    ELSE LET offspring == [address |-> env.sender, password |-> password]
             my_active == IF owner \in DOMAIN owners_active
                          THEN owners_active[owner] ELSE {}
         IN /\ pending' = None
            /\ active_info' = Put(active_info, index, offspring)
            /\ active' = active \cup {index}
            /\ owners_active' = Put(owners_active, owner, my_active \cup {index})
            /\ response' = Ok("RegisterOffspring", "offspring_address", <<>>)
            /\ records' = Append(records, [index |-> index, address |-> env.sender,
                                            owner |-> owner, password |-> password])
            /\ cur' = Put(cur, index, Len(records) + 1)
            /\ issued' = None
            /\ UNCHANGED <<config, prng_seed, inactive_info, owners_inactive,
                           viewing_keys, log_rid>>

\* RegisterOffspring without the removal of the ticket
try_register_offspring_keeps_ticket(env, owner, index, password) ==
    IF pending = None
    THEN /\ response' = Err("RegisterOffspring", "Unable to authenticate registration.")
         /\ UNCHANGED <<storage, history>>
    ELSE IF pending[1] # password
    THEN /\ response' = Err("RegisterOffspring",
                            "password does not match the offspring we are creating")
         /\ UNCHANGED <<storage, history>>
    ELSE LET offspring == [address |-> env.sender, password |-> password]
             my_active == IF owner \in DOMAIN owners_active
                          THEN owners_active[owner] ELSE {}
         IN /\ active_info' = Put(active_info, index, offspring)
            /\ active' = active \cup {index}
            /\ owners_active' = Put(owners_active, owner, my_active \cup {index})
            /\ response' = Ok("RegisterOffspring", "offspring_address", <<>>)
            /\ records' = Append(records, [index |-> index, address |-> env.sender,
                                            owner |-> owner, password |-> password])
            /\ cur' = Put(cur, index, Len(records) + 1)
            /\ issued' = None
            /\ UNCHANGED <<config, prng_seed, pending, inactive_info,
                           owners_inactive, viewing_keys, log_rid>>

try_register_offspring_no_owner_entry(env, owner, index, password) ==
    IF pending = None
    THEN /\ response' = Err("RegisterOffspring", "Unable to authenticate registration.")
         /\ UNCHANGED <<storage, history>>
    ELSE IF pending[1] # password
    THEN /\ response' = Err("RegisterOffspring",
                            "password does not match the offspring we are creating")
         /\ UNCHANGED <<storage, history>>
    ELSE LET offspring == [address |-> env.sender, password |-> password]
         IN /\ pending' = None
            /\ active_info' = Put(active_info, index, offspring)
            /\ active' = active \cup {index}
            /\ response' = Ok("RegisterOffspring", "offspring_address", <<>>)
            /\ records' = Append(records, [index |-> index, address |-> env.sender,
                                            owner |-> owner, password |-> password])
            /\ cur' = Put(cur, index, Len(records) + 1)
            /\ issued' = None
            /\ UNCHANGED <<config, prng_seed, owners_active, inactive_info,
                           owners_inactive, viewing_keys, log_rid>>

\* RegisterOffspring that refuses while the factory is stopped
try_register_offspring_checks_stop(env, owner, index, password) ==
    IF config.stopped
    THEN /\ response' = Err("RegisterOffspring", "The factory has been stopped")
         /\ UNCHANGED <<storage, history>>
    ELSE IF pending = None
    THEN /\ response' = Err("RegisterOffspring", "Unable to authenticate registration.")
         /\ UNCHANGED <<storage, history>>
    ELSE IF pending[1] # password
    THEN /\ response' = Err("RegisterOffspring",
                            "password does not match the offspring we are creating")
         /\ UNCHANGED <<storage, history>>
    ELSE LET offspring == [address |-> env.sender, password |-> password]
             my_active == IF owner \in DOMAIN owners_active
                          THEN owners_active[owner] ELSE {}
         IN /\ pending' = None
            /\ active_info' = Put(active_info, index, offspring)
            /\ active' = active \cup {index}
            /\ owners_active' = Put(owners_active, owner, my_active \cup {index})
            /\ response' = Ok("RegisterOffspring", "offspring_address", <<>>)
            /\ records' = Append(records, [index |-> index, address |-> env.sender,
                                            owner |-> owner, password |-> password])
            /\ cur' = Put(cur, index, Len(records) + 1)
            /\ issued' = None
            /\ UNCHANGED <<config, prng_seed, inactive_info, owners_inactive,
                           viewing_keys, log_rid>>

try_register_offspring(env, owner, index, password) ==
    IF pending = None
    THEN /\ response' = Err("RegisterOffspring", "Unable to authenticate registration.")
         /\ UNCHANGED <<storage, history>>
    ELSE IF pending[1] # password
    THEN /\ response' = Err("RegisterOffspring",
                            "password does not match the offspring we are creating")
         /\ UNCHANGED <<storage, history>>
    ELSE LET offspring == [address |-> env.sender, password |-> password]
             my_active == IF owner \in DOMAIN owners_active
                          THEN owners_active[owner] ELSE {}
         IN /\ pending' = None
            /\ active_info' = Put(active_info, index, offspring)
            /\ active' = active \cup {index}
            /\ owners_active' = Put(owners_active, owner, my_active \cup {index})
            /\ response' = Ok("RegisterOffspring", "offspring_address", <<>>)
            /\ records' = Append(records, [index |-> index, address |-> env.sender,
                                            owner |-> owner, password |-> password])
            /\ cur' = Put(cur, index, Len(records) + 1)
            /\ issued' = None
            /\ UNCHANGED <<config, prng_seed, inactive_info, owners_inactive,
                           viewing_keys, log_rid>>

\* ------------------------------------------------------- DeactivateOffspring
\* authenticate_offspring without the comparison of the stored address with
\* the sender
authenticate_offspring_any_sender(offspring, index) ==
    IF index \in DOMAIN active_info
    THEN IF index \notin active
         THEN "Unauthorized"
         ELSE ""
    ELSE "Missing offspring information"

\* the soft error authenticate_offspring reports, "" when the sender is the
\* active offspring stored under index
authenticate_offspring(offspring, index) ==
    IF index \in DOMAIN active_info
    THEN IF active_info[index].address # offspring \/ index \notin active
         THEN "Unauthorized"
         ELSE ""
    ELSE "Missing offspring information"

remove_from_persons_active(store, person, index) ==
    IF person \in DOMAIN store
    THEN Put(store, person, store[person] \ {index})
    ELSE store

\* DeactivateOffspring that leaves the info and the active set as they were
try_deactivate_offspring_keeps_active(env, index, owner) ==
    LET may_error == authenticate_offspring(env.sender, index)
    IN IF may_error # ""
       THEN /\ response' = Ok("DeactivateOffspring", may_error, <<>>)
            /\ UNCHANGED <<storage, history>>
       ELSE LET inactive_index == Len(inactive_info)
            IN /\ inactive_info' = Append(inactive_info, active_info[index])
               /\ owners_active' = remove_from_persons_active(owners_active, owner, index)
               /\ owners_inactive' = [owners_inactive EXCEPT
                                         ![owner] = Append(@, inactive_index)]
               /\ response' = Ok("DeactivateOffspring", "", <<>>)
               /\ log_rid' = IF index \in DOMAIN cur
                             THEN Append(log_rid, cur[index]) ELSE log_rid
               /\ cur' = Del(cur, index)
               /\ UNCHANGED <<config, prng_seed, pending, active, active_info,
                              viewing_keys, records, issued>>

\* DeactivateOffspring without the push onto the inactive log
try_deactivate_offspring_no_push(env, index, owner) ==
    LET may_error == authenticate_offspring(env.sender, index)
    IN IF may_error # ""
       THEN /\ response' = Ok("DeactivateOffspring", may_error, <<>>)
            /\ UNCHANGED <<storage, history>>
       ELSE /\ active_info' = Del(active_info, index)
            /\ active' = active \ {index}
            /\ owners_active' = remove_from_persons_active(owners_active, owner, index)
            /\ response' = Ok("DeactivateOffspring", "", <<>>)
            /\ log_rid' = Append(log_rid, cur[index])
            /\ cur' = Del(cur, index)
            /\ UNCHANGED <<config, prng_seed, pending, inactive_info,
                           owners_inactive, viewing_keys, records, issued>>

try_deactivate_offspring_keeps_info(env, index, owner) ==
    LET may_error == authenticate_offspring(env.sender, index)
    IN IF may_error # ""
       THEN /\ response' = Ok("DeactivateOffspring", may_error, <<>>)
            /\ UNCHANGED <<storage, history>>
       ELSE LET inactive_index == Len(inactive_info)
            IN /\ active' = active \ {index}
               /\ inactive_info' = Append(inactive_info, active_info[index])
               /\ owners_active' = remove_from_persons_active(owners_active, owner, index)
               /\ owners_inactive' = [owners_inactive EXCEPT
                                         ![owner] = Append(@, inactive_index)]
               /\ response' = Ok("DeactivateOffspring", "", <<>>)
               /\ log_rid' = Append(log_rid, cur[index])
               /\ cur' = Del(cur, index)
               /\ UNCHANGED <<config, prng_seed, pending, active_info,
                              viewing_keys, records, issued>>

try_deactivate_offspring(env, index, owner) ==
    LET may_error == authenticate_offspring(env.sender, index)
    IN IF may_error # ""
       THEN /\ response' = Ok("DeactivateOffspring", may_error, <<>>)
            /\ UNCHANGED <<storage, history>>
       ELSE LET inactive_index == Len(inactive_info)
            IN /\ active_info' = Del(active_info, index)
               /\ active' = active \ {index}
               /\ inactive_info' = Append(inactive_info, active_info[index])
               /\ owners_active' = remove_from_persons_active(owners_active, owner, index)
               /\ owners_inactive' = [owners_inactive EXCEPT
                                         ![owner] = Append(@, inactive_index)]
               /\ response' = Ok("DeactivateOffspring", "", <<>>)
               /\ log_rid' = Append(log_rid, cur[index])
               /\ cur' = Del(cur, index)
               /\ UNCHANGED <<config, prng_seed, pending, viewing_keys,
                              records, issued>>

\* ------------------------------------------------------------ admin commands
\* NewOffspringContract without the comparison of the sender with the admin
try_new_contract_any_sender(env, offspring_contract) ==
    /\ config' = [config EXCEPT !.version = offspring_contract]
    /\ response' = Ok("NewOffspringContract", "", <<>>)
    /\ UNCHANGED <<prng_seed, pending, active, active_info, owners_active,
                   inactive_info, owners_inactive, viewing_keys, history>>

try_new_contract(env, offspring_contract) ==
    IF config.admin # env.sender
    THEN /\ response' = Err("NewOffspringContract", "This is an admin command")
         /\ UNCHANGED <<storage, history>>
    ELSE /\ config' = [config EXCEPT !.version = offspring_contract]
         /\ response' = Ok("NewOffspringContract", "", <<>>)
         /\ UNCHANGED <<prng_seed, pending, active, active_info, owners_active,
                        inactive_info, owners_inactive, viewing_keys, history>>

\* SetStatus without the comparison of the sender with the admin
try_set_status_any_sender(env, stop) ==
    /\ config' = [config EXCEPT !.stopped = stop]
    /\ response' = Ok("SetStatus", "", <<>>)
    /\ UNCHANGED <<prng_seed, pending, active, active_info, owners_active,
                   inactive_info, owners_inactive, viewing_keys, history>>

\* SetStatus that also removes the pending ticket
try_set_status_clears_ticket(env, stop) ==
    IF config.admin # env.sender
    THEN /\ response' = Err("SetStatus", "This is an admin command")
         /\ UNCHANGED <<storage, history>>
    ELSE /\ config' = [config EXCEPT !.stopped = stop]
         /\ pending' = None
         /\ response' = Ok("SetStatus", "", <<>>)
         /\ UNCHANGED <<prng_seed, active, active_info, owners_active,
                        inactive_info, owners_inactive, viewing_keys, history>>

try_set_status(env, stop) ==
    IF config.admin # env.sender
    THEN /\ response' = Err("SetStatus", "This is an admin command")
         /\ UNCHANGED <<storage, history>>
    ELSE /\ config' = [config EXCEPT !.stopped = stop]
         /\ response' = Ok("SetStatus", "", <<>>)
         /\ UNCHANGED <<prng_seed, pending, active, active_info, owners_active,
                        inactive_info, owners_inactive, viewing_keys, history>>

\* -------------------------------------------------------------- viewing keys
\* viewing_key.rs: ViewingKey::new
ViewingKey_new(env, seed, entropy) == sha_256(new_entropy(env, seed, entropy))
\* viewing_key.rs: ViewingKey::to_hashed
to_hashed(key) == sha_256(key)

\* CreateViewingKey that stores the key as it is returned
try_create_key_plaintext(env, entropy) ==
    LET key == ViewingKey_new(env, prng_seed, entropy)
    IN /\ viewing_keys' = Put(viewing_keys, env.sender, key)
       /\ response' = Ok("CreateViewingKey", "", <<key>>)
       /\ UNCHANGED <<config, prng_seed, pending, active, active_info,
                      owners_active, inactive_info, owners_inactive, history>>

\* CreateViewingKey that saves the bytes it drew as the new seed
try_create_key_advances_seed(env, entropy) ==
    LET key == ViewingKey_new(env, prng_seed, entropy)
    IN /\ viewing_keys' = Put(viewing_keys, env.sender, to_hashed(key))
       /\ prng_seed' = new_entropy(env, prng_seed, entropy)
       /\ response' = Ok("CreateViewingKey", "", <<key>>)
       /\ UNCHANGED <<config, pending, active, active_info,
                      owners_active, inactive_info, owners_inactive, history>>

try_create_key(env, entropy) ==
    LET key == ViewingKey_new(env, prng_seed, entropy)
    IN /\ viewing_keys' = Put(viewing_keys, env.sender, to_hashed(key))
       /\ response' = Ok("CreateViewingKey", "", <<key>>)
       /\ UNCHANGED <<config, prng_seed, pending, active, active_info,
                      owners_active, inactive_info, owners_inactive, history>>

\* SetViewingKey that keeps a key already stored for the sender
try_set_key_keeps_prior(env, key) ==
    /\ viewing_keys' = IF env.sender \in DOMAIN viewing_keys
                       THEN viewing_keys
                       ELSE Put(viewing_keys, env.sender, to_hashed(key))
    /\ response' = Ok("SetViewingKey", "", <<key>>)
    /\ UNCHANGED <<config, prng_seed, pending, active, active_info,
                   owners_active, inactive_info, owners_inactive, history>>

try_set_key(env, key) ==
    /\ viewing_keys' = Put(viewing_keys, env.sender, to_hashed(key))
    /\ response' = Ok("SetViewingKey", "", <<key>>)
    /\ UNCHANGED <<config, prng_seed, pending, active, active_info,
                   owners_active, inactive_info, owners_inactive, history>>

\* -------------------------------------------------------------------- handle
CreateOffspringUpTo(n) ==
    \E sender \in Addr, height \in BlockSpace, time \in BlockSpace,
       entropy \in EntropySpace, owner \in Addr :
        /\ config.index < n
        /\ try_create_offspring(Env(height, time, sender), entropy, owner)
        /\ UNCHANGED <<queried, offspring_vars>>

RegisterOffspringAt(indices) ==
    \E sender \in Addr, owner \in Addr, index \in indices, password \in HashSpace :
        /\ try_register_offspring(Env(0, 0, sender), owner, index, password)
        /\ UNCHANGED <<queried, offspring_vars>>

DeactivateOffspringAt(indices) ==
    \E sender \in Addr, index \in indices, owner \in Addr :
        /\ try_deactivate_offspring(Env(0, 0, sender), index, owner)
        /\ UNCHANGED <<queried, offspring_vars>>

NewOffspringContract ==
    \E sender \in Addr, offspring_contract \in CodeIds :
        /\ try_new_contract(Env(0, 0, sender), offspring_contract)
        /\ UNCHANGED <<queried, offspring_vars>>

SetStatus ==
    \E sender \in Addr, stop \in BOOLEAN :
        /\ try_set_status(Env(0, 0, sender), stop)
        /\ UNCHANGED <<queried, offspring_vars>>

CreateViewingKey ==
    \E sender \in Addr, height \in BlockSpace, time \in BlockSpace,
       entropy \in EntropySpace :
        /\ try_create_key(Env(height, time, sender), entropy)
        /\ UNCHANGED <<queried, offspring_vars>>

SetViewingKey ==
    \E sender \in Addr, key \in HashSpace :
        /\ try_set_key(Env(0, 0, sender), key)
        /\ UNCHANGED <<queried, offspring_vars>>

CreateOffspring == CreateOffspringUpTo(MaxCreates)
RegisterOffspring == RegisterOffspringAt(IndexSpace)
DeactivateOffspring == DeactivateOffspringAt(IndexSpace)

\* the registry: handshake, membership index and admin commands
Next ==
    \/ CreateOffspring
    \/ RegisterOffspring
    \/ DeactivateOffspring
    \/ NewOffspringContract
    \/ SetStatus

Spec == Init /\ [][Next]_vars

CreateOffspringTwo == CreateOffspringUpTo(MaxCreates + 1)
RegisterOffspringTwo == RegisterOffspringAt(WideIndexSpace)
DeactivateOffspringTwo == DeactivateOffspringAt(WideIndexSpace)

\* the same registry with one more CreateOffspring, for the cases that need
\* a second ticket
NextTwo ==
    \/ CreateOffspringTwo
    \/ RegisterOffspringTwo
    \/ DeactivateOffspringTwo
    \/ NewOffspringContract
    \/ SetStatus

SpecTwo == Init /\ [][NextTwo]_vars

\* the handshake alone: CreateOffspring and RegisterOffspring, two tickets
NextTicket ==
    \/ CreateOffspringTwo
    \/ RegisterOffspringTwo

SpecTicket == Init /\ [][NextTicket]_vars

\* -------------------------------------------------------------------- query
\* viewing_key.rs: ViewingKey::check_viewing_key, the hash of the candidate
\* compared with a stored hash
check_viewing_key(input_key, hashed_pw) == to_hashed(input_key) = hashed_pw

\* is_key_valid that returns what the comparison with the dummy value gives
is_key_valid_dummy_result(store, address, viewing_key) ==
    LET load_key == IF address \in DOMAIN store THEN Some(store[address]) ELSE None
    IN IF load_key # None
       THEN [is_valid |-> check_viewing_key(viewing_key, load_key[1]),
             checked |-> <<load_key[1]>>]
       ELSE [is_valid |-> check_viewing_key(viewing_key, ZeroKey),
             checked |-> <<ZeroKey>>]

\* is_key_valid that returns at once when no key is stored
is_key_valid_early_return(store, address, viewing_key) ==
    LET load_key == IF address \in DOMAIN store THEN Some(store[address]) ELSE None
    IN IF load_key # None
       THEN [is_valid |-> check_viewing_key(viewing_key, load_key[1]),
             checked |-> <<load_key[1]>>]
       ELSE [is_valid |-> FALSE, checked |-> <<>>]

\* is_valid is the bool returned; checked lists the values the candidate was
\* hashed and compared with on the path taken (with no key stored, the dummy
\* value, the outcome of that comparison being dropped)
is_key_valid(store, address, viewing_key) ==
    LET load_key == IF address \in DOMAIN store THEN Some(store[address]) ELSE None
    IN IF load_key # None
       THEN [is_valid |-> check_viewing_key(viewing_key, load_key[1]),
             checked |-> <<load_key[1]>>]
       ELSE [is_valid |-> FALSE, checked |-> <<ZeroKey>>]

try_validate_key(address, viewing_key) ==
    [kind |-> "IsKeyValid",
     is_valid |-> is_key_valid(viewing_keys, address, viewing_key).is_valid]

\* the orders in which a HashSet may be iterated
Orderings(set) ==
    {ord \in [1 .. Cardinality(set) -> set] :
        \A i, j \in 1 .. Cardinality(set) : i # j => ord[i] # ord[j]}

\* the lists display_active_list may return for the set stored under key (under
\* the owners' prefix, or the factory's own active set when prefix is None)
display_active_list(prefix, key) ==
    LET load_list == IF prefix = None
                     THEN Some(active)
                     ELSE IF key \in DOMAIN owners_active
                          THEN Some(owners_active[key]) ELSE None
        list == IF load_list = None THEN {} ELSE load_list[1]
        shown == {index \in list : index \in DOMAIN active_info}
    IN IF shown = {}
       THEN {None}
       ELSE {Some([k \in 1 .. Cardinality(shown) |-> active_info[ord[k]]]) :
                ord \in Orderings(shown)}

\* the answers try_list_active may give (one per order of the active list)
try_list_active ==
    {[kind |-> "ListActiveOffspring", active |-> active_list] :
        active_list \in display_active_list(None, "active")}

display_addr_inactive(key) ==
    LET inactive_list == owners_inactive[key]
        n == Len(inactive_list)
        rev == [k \in 1 .. n |-> inactive_list[n - k + 1]]
        found == SelectSeq(rev, LAMBDA index : index < Len(inactive_info))
        inactive_vec == [k \in 1 .. Len(found) |->
                            [index |-> None,
                             address |-> inactive_info[found[k] + 1].address,
                             password |-> inactive_info[found[k] + 1].password]]
    IN IF inactive_vec = <<>> THEN None ELSE Some(inactive_vec)

\* ListMyOffspring without the validation of the viewing key
try_list_my_no_key(address, viewing_key, filter) ==
    LET types == IF filter = None THEN "All" ELSE filter[1]
        active_lists == IF types = "Active" \/ types = "All"
                        THEN display_active_list(Some("ownersactive"), address)
                        ELSE {None}
        inactive_list == IF types = "Inactive" \/ types = "All"
                         THEN display_addr_inactive(address)
                         ELSE None
    IN {[kind |-> "ListMyOffspring", active |-> active_list,
         inactive |-> inactive_list] : active_list \in active_lists}

\* the answers try_list_my may give (one per order of the active list)
try_list_my(address, viewing_key, filter) ==
    IF is_key_valid(viewing_keys, address, viewing_key).is_valid
    THEN LET types == IF filter = None THEN "All" ELSE filter[1]
             active_lists == IF types = "Active" \/ types = "All"
                             THEN display_active_list(Some("ownersactive"), address)
                             ELSE {None}
             inactive_list == IF types = "Inactive" \/ types = "All"
                              THEN display_addr_inactive(address)
                              ELSE None
         IN {[kind |-> "ListMyOffspring", active |-> active_list,
              inactive |-> inactive_list] : active_list \in active_lists}
    ELSE {[kind |-> "ViewingKeyError",
           error |-> "Wrong viewing key for this address or viewing key not set"]}

\* Iterator::enumerate, rev, skip and take on a sequence
enumerate(seq) == [k \in 1 .. Len(seq) |-> [i |-> k - 1, res |-> seq[k]]]
rev(seq) == [k \in 1 .. Len(seq) |-> seq[Len(seq) - k + 1]]
skip(seq, n) == SubSeq(seq, n + 1, Len(seq))
take(seq, n) == SubSeq(seq, 1, IF n < Len(seq) THEN n ELSE Len(seq))

\* ListInactiveOffspring that walks the log from its oldest entry
try_list_inactive_oldest_first(before, page_size) ==
    LET len == Len(inactive_info)
        pos0 == IF before = None THEN len ELSE before[1]
        pos == IF pos0 > len THEN len ELSE pos0
        quant == IF page_size = None THEN DefaultPageSize ELSE page_size[1]
        taken == take(skip(enumerate(inactive_info), len - pos), quant)
        inactive_vec == [k \in 1 .. Len(taken) |->
                            [index |-> Some(taken[k].i),
                             address |-> taken[k].res.address,
                             password |-> taken[k].res.password]]
    IN [kind |-> "ListInactiveOffspring",
        inactive |-> IF inactive_vec = <<>> THEN None ELSE Some(inactive_vec)]

\* ListInactiveOffspring that starts at the entry before names
try_list_inactive_from_before(before, page_size) ==
    LET len == Len(inactive_info)
        pos0 == IF before = None THEN len ELSE before[1] + 1
        pos == IF pos0 > len THEN len ELSE pos0
        quant == IF page_size = None THEN DefaultPageSize ELSE page_size[1]
        taken == take(skip(rev(enumerate(inactive_info)), len - pos), quant)
        inactive_vec == [k \in 1 .. Len(taken) |->
                            [index |-> Some(taken[k].i),
                             address |-> taken[k].res.address,
                             password |-> taken[k].res.password]]
    IN [kind |-> "ListInactiveOffspring",
        inactive |-> IF inactive_vec = <<>> THEN None ELSE Some(inactive_vec)]

try_list_inactive(before, page_size) ==
    LET len == Len(inactive_info)
        pos0 == IF before = None THEN len ELSE before[1]
        pos == IF pos0 > len THEN len ELSE pos0
        quant == IF page_size = None THEN DefaultPageSize ELSE page_size[1]
        taken == take(skip(rev(enumerate(inactive_info)), len - pos), quant)
        inactive_vec == [k \in 1 .. Len(taken) |->
                            [index |-> Some(taken[k].i),
                             address |-> taken[k].res.address,
                             password |-> taken[k].res.password]]
    IN [kind |-> "ListInactiveOffspring",
        inactive |-> IF inactive_vec = <<>> THEN None ELSE Some(inactive_vec)]

IsKeyValid ==
    \E address \in Addr, viewing_key \in HashSpace :
        /\ queried' = Some([msg |-> [kind |-> "IsKeyValid", address |-> address,
                                     viewing_key |-> viewing_key],
                            answer |-> try_validate_key(address, viewing_key),
                            checked |-> is_key_valid(viewing_keys, address,
                                                     viewing_key).checked])
        /\ UNCHANGED <<storage, history, response, offspring_vars>>

ListMyOffspring ==
    \E address \in Addr, viewing_key \in HashSpace, filter \in Filters :
        \E answer \in try_list_my(address, viewing_key, filter) :
            /\ queried' = Some([msg |-> [kind |-> "ListMyOffspring",
                                         address |-> address,
                                         viewing_key |-> viewing_key,
                                         filter |-> filter],
                                answer |-> answer,
                                checked |-> is_key_valid(viewing_keys, address,
                                                         viewing_key).checked])
            /\ UNCHANGED <<storage, history, response, offspring_vars>>

ListInactiveOffspring ==
    \E before \in Befores, page_size \in PageSizes :
        /\ queried' = Some([msg |-> [kind |-> "ListInactiveOffspring",
                                     before |-> before, page_size |-> page_size],
                            answer |-> try_list_inactive(before, page_size),
                            checked |-> <<>>])
        /\ UNCHANGED <<storage, history, response, offspring_vars>>

ListActiveOffspring ==
    \E answer \in try_list_active :
        /\ queried' = Some([msg |-> [kind |-> "ListActiveOffspring"],
                            answer |-> answer, checked |-> <<>>])
        /\ UNCHANGED <<storage, history, response, offspring_vars>>

\* ---------------------------------------------------- the offspring's messages
\* the address of the offspring instantiated for an index
offspring_addr(index) == index % Cardinality(Addr)

\* the entropy string an owner sends with CreateOffspring
OwnerEntropy == {0}

\* CreateOffspring sent by an owner for itself, once the previous offspring's
\* registration callback has been handled
OwnerCreateOffspring(n, owners) ==
    \E owner \in owners, entropy \in OwnerEntropy :
        /\ config.index < n
        /\ pending = None
        /\ try_create_offspring(Env(0, 0, owner), entropy, owner)
        /\ UNCHANGED <<queried, offspring_vars>>

\* offspring init: the register callback, with the index, password and owner of
\* the init message the factory dispatched
OffspringInit ==
    /\ response.op = "CreateOffspring" /\ response.status = "Ok"
    /\ LET msg == response.messages[1]
       IN try_register_offspring(Env(0, 0, offspring_addr(msg.index)),
                                 msg.owner, msg.index, msg.password)
    /\ UNCHANGED <<queried, offspring_vars>>

\* DeactivateOffspring as the offspring's try_deactivate builds it, with the
\* offspring's own index and owner, sent by the registered offspring
OffspringDeactivate ==
    \E index \in active \cap DOMAIN cur :
        /\ try_deactivate_offspring(Env(0, 0, active_info[index].address),
                                    index, records[cur[index]].owner)
        /\ UNCHANGED <<queried, offspring_vars>>

OwnerCreateOffspringMy == OwnerCreateOffspring(MaxCreates, Addr)
OwnerCreateOffspringLog == OwnerCreateOffspring(MaxLog, {InitAdmin})

\* the viewing keys and their validation
NextKeys ==
    \/ CreateViewingKey
    \/ SetViewingKey
    \/ IsKeyValid

SpecKeys == Init /\ [][NextKeys]_vars

\* the owners' listing, over factories whose offspring run the offspring
\* contract
NextMy ==
    \/ OwnerCreateOffspringMy
    \/ OffspringInit
    \/ OffspringDeactivate
    \/ SetViewingKey
    \/ ListMyOffspring

SpecMy == Init /\ [][NextMy]_vars

\* the inactive log and its listing, the offspring all of one owner
NextLog ==
    \/ OwnerCreateOffspringLog
    \/ OffspringInit
    \/ OffspringDeactivate
    \/ ListInactiveOffspring

SpecLog == Init /\ [][NextLog]_vars

\* every handle message of the factory, from any sender
NextFrame ==
    \/ CreateOffspring
    \/ RegisterOffspring
    \/ DeactivateOffspring
    \/ NewOffspringContract
    \/ SetStatus
    \/ CreateViewingKey
    \/ SetViewingKey

SpecFrame == Init /\ [][NextFrame]_vars

\* the membership index and its global active listing, two tickets
NextActive ==
    \/ CreateOffspringTwo
    \/ RegisterOffspringTwo
    \/ DeactivateOffspringTwo
    \/ ListActiveOffspring

SpecActive == Init /\ [][NextActive]_vars

\* the viewing-key messages, from any sender, over a registry that offspring
\* fill and empty
NextKeyFrame ==
    \/ OwnerCreateOffspringMy
    \/ OffspringInit
    \/ OffspringDeactivate
    \/ CreateViewingKey
    \/ SetViewingKey

SpecKeyFrame == Init /\ [][NextKeyFrame]_vars

\* ------------------------------------------------------------ the offspring
\* The offspring contract (src/offspring/src/contract.rs) keeps one State.
\* init, try_increment, try_reset and the query reach it through config() and
\* config_read(), the cosmwasm_storage singleton, which stores it as JSON
\* under the length-prefixed key; try_deactivate reaches for it with load()
\* and save() of state.rs, which use the key CONFIG_KEY as it is, encoded
\* with Bincode2.  These are two storage slots: state and raw_config.

\* the largest count the model lets Increment reach
MaxCount == 1
\* i32 counts an InitMsg or a Reset carries
CountSpace == -1 .. MaxCount

\* ContractInfo of a factory
Factories == {[code_hash |-> "factory", address |-> a] : a \in Addr}
\* InitMsg; its label is read by no code of contract.rs, its description is
\* stored and never read again
InitMsgs ==
    [factory : Factories, index : WideIndexSpace, password : HashSpace,
     description : {None}, owner : Addr, count : CountSpace]

\* Env as the offspring reads it
OffspringEnv(sender, address) ==
    [sender |-> sender, contract |-> [address |-> address]]

\* the error enforce_active returns, None for Ok(())
enforce_active(st) ==
    IF st.active THEN None ELSE Some("This contract is inactive.")

offspring_init_no_callback(env, msg) ==
    /\ state' = Some([factory |-> msg.factory, index |-> msg.index,
                      password |-> msg.password, active |-> TRUE,
                      offspring_addr |-> env.contract.address,
                      description |-> msg.description, count |-> msg.count,
                      owner |-> msg.owner])
    /\ offspring_response' = Ok("Init", "", <<>>)
    /\ UNCHANGED raw_config

\* init of the offspring
offspring_init(env, msg) ==
    LET reg_offspring_msg ==
            [kind |-> "RegisterOffspring",
             code_hash |-> msg.factory.code_hash, to |-> msg.factory.address,
             owner |-> msg.owner,
             offspring |-> [index |-> msg.index, password |-> msg.password]]
    IN /\ state' = Some([factory |-> msg.factory, index |-> msg.index,
                         password |-> msg.password, active |-> TRUE,
                         offspring_addr |-> env.contract.address,
                         description |-> msg.description, count |-> msg.count,
                         owner |-> msg.owner])
       /\ offspring_response' = Ok("Init", "", <<reg_offspring_msg>>)
       /\ UNCHANGED raw_config

\* Deactivate that reads the singleton and notifies the factory, the flag
\* left as it is
try_deactivate_keeps_flag(env) ==
    IF state = None
    THEN /\ offspring_response' = Err("Deactivate", "NotFound")
         /\ UNCHANGED <<state, raw_config>>
    ELSE LET st == state[1]
         IN IF enforce_active(st) # None
            THEN /\ offspring_response' = Err("Deactivate", enforce_active(st)[1])
                 /\ UNCHANGED <<state, raw_config>>
            ELSE IF env.sender # st.owner
            THEN /\ offspring_response' = Err("Deactivate", "Unauthorized")
                 /\ UNCHANGED <<state, raw_config>>
            ELSE /\ offspring_response' =
                        Ok("Deactivate", "",
                           <<[kind |-> "DeactivateOffspring",
                              code_hash |-> st.factory.code_hash,
                              to |-> st.factory.address,
                              index |-> st.index, owner |-> st.owner]>>)
                 /\ UNCHANGED <<state, raw_config>>

\* Deactivate: loads and saves the raw key, not the singleton
try_deactivate(env) ==
    IF raw_config = None
    THEN /\ offspring_response' = Err("Deactivate", "NotFound")
         /\ UNCHANGED <<state, raw_config>>
    ELSE LET st == raw_config[1]
         IN IF enforce_active(st) # None
            THEN /\ offspring_response' = Err("Deactivate", enforce_active(st)[1])
                 /\ UNCHANGED <<state, raw_config>>
            ELSE IF env.sender # st.owner
            THEN /\ offspring_response' = Err("Deactivate", "Unauthorized")
                 /\ UNCHANGED <<state, raw_config>>
            ELSE /\ raw_config' = Some([st EXCEPT !.active = FALSE])
                 /\ offspring_response' =
                        Ok("Deactivate", "",
                           <<[kind |-> "DeactivateOffspring",
                              code_hash |-> st.factory.code_hash,
                              to |-> st.factory.address,
                              index |-> st.index, owner |-> st.owner]>>)
                 /\ UNCHANGED state

\* Increment: anyone may send it
try_increment ==
    IF state = None
    THEN /\ offspring_response' = Err("Increment", "NotFound")
         /\ UNCHANGED <<state, raw_config>>
    ELSE LET st == state[1]
         IN IF enforce_active(st) # None
            THEN /\ offspring_response' = Err("Increment", enforce_active(st)[1])
                 /\ UNCHANGED <<state, raw_config>>
            ELSE /\ state' = Some([st EXCEPT !.count = st.count + 1])
                 /\ offspring_response' = Ok("Increment", "", <<>>)
                 /\ UNCHANGED raw_config

\* Reset: the owner sets the count
try_reset(env, count) ==
    IF state = None
    THEN /\ offspring_response' = Err("Reset", "NotFound")
         /\ UNCHANGED <<state, raw_config>>
    ELSE LET st == state[1]
         IN IF enforce_active(st) # None
            THEN /\ offspring_response' = Err("Reset", enforce_active(st)[1])
                 /\ UNCHANGED <<state, raw_config>>
            ELSE IF env.sender # st.owner
            THEN /\ offspring_response' = Err("Reset", "Unauthorized")
                 /\ UNCHANGED <<state, raw_config>>
            ELSE /\ state' = Some([st EXCEPT !.count = count])
                 /\ offspring_response' = Ok("Reset", "", <<>>)
                 /\ UNCHANGED raw_config

\* the instantiation of the offspring, which runs its init once
Instantiate ==
    /\ state = None
    /\ \E sender \in Addr, address \in Addr, msg \in InitMsgs :
           offspring_init(OffspringEnv(sender, address), msg)
    /\ UNCHANGED <<storage, history, response, queried, asked>>

\* handle of the instantiated offspring
Increment ==
    /\ state # None
    /\ state[1].count < MaxCount
    /\ try_increment
    /\ UNCHANGED <<storage, history, response, queried, asked>>

Reset ==
    /\ state # None
    /\ \E sender \in Addr, count \in CountSpace :
           try_reset(OffspringEnv(sender, state[1].offspring_addr), count)
    /\ UNCHANGED <<storage, history, response, queried, asked>>

Deactivate ==
    /\ state # None
    /\ \E sender \in Addr :
           /\ try_deactivate(OffspringEnv(sender, state[1].offspring_addr))
           /\ asked' = (asked \/ sender = state[1].owner)
    /\ UNCHANGED <<storage, history, response, queried>>

\* one offspring, from its instantiation on
NextOffspring ==
    \/ Instantiate
    \/ Increment
    \/ Reset
    \/ Deactivate

SpecOffspring == Init /\ [][NextOffspring]_vars

\* ------------------------------------------------------ the offspring's query
\* the error enforce_valid_viewing_key returns, None for Ok(()); the querier
\* answers with the factory's IsKeyValid
enforce_valid_viewing_key(st, address, viewing_key) ==
    IF try_validate_key(address, viewing_key).is_valid
    THEN None
    ELSE Some("This address does not have permission and/or viewing key is not valid")

\* GetCount without the comparison of the address with the owner
query_count_any_address(st, address, viewing_key) ==
    IF enforce_valid_viewing_key(st, address, viewing_key) = None
    THEN [kind |-> "CountResponse", count |-> st.count]
    ELSE [kind |-> "Err",
          error |-> enforce_valid_viewing_key(st, address, viewing_key)[1]]

query_count(st, address, viewing_key) ==
    IF st.owner = address
    THEN IF enforce_valid_viewing_key(st, address, viewing_key) = None
         THEN [kind |-> "CountResponse", count |-> st.count]
         ELSE [kind |-> "Err",
               error |-> enforce_valid_viewing_key(st, address, viewing_key)[1]]
    ELSE [kind |-> "Err",
          error |-> "This address does not have permission and/or viewing key is not valid"]

\* query of the instantiated offspring
GetCount ==
    /\ state # None
    /\ \E address \in Addr, viewing_key \in HashSpace :
           queried' = Some([msg |-> [kind |-> "GetCount", address |-> address,
                                     viewing_key |-> viewing_key],
                            answer |-> query_count(state[1], address, viewing_key),
                            checked |-> <<>>])
    /\ UNCHANGED <<storage, history, response, offspring_vars>>

\* the counter and its query, over a factory whose users set viewing keys
NextCount ==
    \/ Instantiate
    \/ Increment
    \/ SetViewingKey
    \/ GetCount

SpecCount == Init /\ [][NextCount]_vars

\* ------------------------------------------- the factory and one offspring
\* ContractInfo of the factory, as try_create_offspring puts it into the
\* init message
ThisFactory == [code_hash |-> "factory", address |-> InitAdmin]

\* CreateOffspring sent by an owner while no offspring has been instantiated
PairCreate ==
    /\ state = None
    /\ OwnerCreateOffspringMy

\* the instantiation the factory's message asks for: init of the offspring
\* with the index, password and owner of that message, and the factory's
\* handling of the RegisterOffspring the init returns, in one transaction
PairInstantiate ==
    /\ state = None
    /\ response.op = "CreateOffspring" /\ response.status = "Ok"
    /\ LET m == response.messages[1]
           address == offspring_addr(m.index)
       IN /\ \E count \in CountSpace :
                 offspring_init(OffspringEnv(ThisFactory.address, address),
                                [factory |-> ThisFactory, index |-> m.index,
                                 password |-> m.password, description |-> None,
                                 owner |-> m.owner, count |-> count])
          /\ IF Len(offspring_response'.messages) = 1
             THEN LET reg == offspring_response'.messages[1]
                  IN try_register_offspring(Env(0, 0, address), reg.owner,
                                            reg.offspring.index,
                                            reg.offspring.password)
             ELSE UNCHANGED <<storage, history, response>>
    /\ UNCHANGED <<queried, asked>>

\* Deactivate sent to the offspring, and the factory's handling of the
\* DeactivateOffspring it returns, in one transaction
PairDeactivate ==
    /\ state # None
    /\ \E sender \in Addr :
           /\ try_deactivate(OffspringEnv(sender, state[1].offspring_addr))
           /\ asked' = (asked \/ sender = state[1].owner)
    /\ IF Len(offspring_response'.messages) = 1
       THEN LET m == offspring_response'.messages[1]
            IN try_deactivate_offspring(Env(0, 0, state[1].offspring_addr),
                                        m.index, m.owner)
       ELSE UNCHANGED <<storage, history, response>>
    /\ UNCHANGED queried

\* the factory and the offspring it instantiates
NextPair ==
    \/ PairCreate
    \/ PairInstantiate
    \/ Increment
    \/ Reset
    \/ PairDeactivate
    \/ SetViewingKey
    \/ GetCount

SpecPair == Init /\ [][NextPair]_vars

\* ===================================================================== claims
\* A record is one successful registration: records[r], r \in RecIds.
RecIds == 1 .. Len(records)
IndexOf(r) == records[r].index
OwnerOf(r) == records[r].owner
InGlobalActive(r) == IndexOf(r) \in active
InGlobalInactive(r) == \E k \in 1 .. Len(log_rid) : log_rid[k] = r
InOwnerActive(r) ==
    /\ OwnerOf(r) \in DOMAIN owners_active
    /\ IndexOf(r) \in owners_active[OwnerOf(r)]
InOwnerInactive(r) ==
    \E k \in 1 .. Len(owners_inactive[OwnerOf(r)]) :
        LET pos == owners_inactive[OwnerOf(r)][k] + 1
        IN pos \in 1 .. Len(log_rid) /\ log_rid[pos] = r
\* the index has held a record that was moved to the inactive log
Deactivated(index) == \E k \in 1 .. Len(log_rid) : IndexOf(log_rid[k]) = index

Succeeded(op) ==
    response.op = op /\ response.status = "Ok" /\ response.text \in {"", "offspring_address"}

\* C1: every registered record is in exactly one of {global active set, global
\* inactive log} and in exactly one of {its owner's active set, its owner's
\* inactive list}.
C1_ExactlyOneIndex ==
    \A r \in RecIds :
        /\ ~(InGlobalActive(r) <=> InGlobalInactive(r))
        /\ ~(InOwnerActive(r) <=> InOwnerInactive(r))

\* C2: a RegisterOffspring whose password is not the pending ticket fails and
\* leaves the active set, the owners' active sets, the stored infos, the
\* inactive log and the pending ticket unchanged.
C2_WrongPasswordRejected ==
    [][response'.op = "RegisterOffspring" =>
         \A password \in HashSpace :
            ( /\ pending # Some(password)
              /\ \E sender \in Addr, owner \in Addr, index \in WideIndexSpace :
                    try_register_offspring(Env(0, 0, sender), owner, index, password) )
            => ( /\ response'.status = "Err"
                 /\ UNCHANGED <<active, owners_active, active_info, inactive_info,
                                owners_inactive, pending>> )]_vars

C2_Witness ==
    /\ response = Err("RegisterOffspring",
                      "password does not match the offspring we are creating")
    /\ pending # None

C4_TicketIsOneTime ==
    /\ pending = None
    /\ [][ /\ (response'.op = "RegisterOffspring" /\ response'.status = "Ok")
              => pending' = None
           /\ (response'.op = "RegisterOffspring" /\ issued = None)
              => ( /\ \E sender \in Addr, owner \in Addr, index \in WideIndexSpace,
                         password \in HashSpace :
                        try_register_offspring(Env(0, 0, sender), owner, index, password)
                   /\ response'.status = "Err"
                   /\ UNCHANGED <<storage, history>> ) ]_vars

C4_Witness ==
    /\ response = Err("RegisterOffspring", "Unable to authenticate registration.")
    /\ Len(records) >= 1
    /\ issued = None

\* C5: right after a successful DeactivateOffspring the record it moved is absent
\* from the global active set and from its owner's active set, and present in
\* the global inactive log and in its owner's inactive list.
C5_DeactivateMovesRecord ==
    Succeeded("DeactivateOffspring") =>
        \A r \in RecIds :
            r = log_rid[Len(log_rid)] =>
                /\ ~InGlobalActive(r)
                /\ ~InOwnerActive(r)
                /\ InGlobalInactive(r)
                /\ InOwnerInactive(r)

\* C6: a DeactivateOffspring for an index whose record has already been moved to
\* the inactive log fails (soft error) and leaves the storage as it was.
C6_SecondDeactivateRejected ==
    [][response'.op = "DeactivateOffspring" =>
         \A index \in WideIndexSpace :
            ( /\ index \notin DOMAIN cur
              /\ Deactivated(index)
              /\ \E sender \in Addr, owner \in Addr :
                    try_deactivate_offspring(Env(0, 0, sender), index, owner) )
            => (response'.text # "" /\ UNCHANGED <<storage, history>>)]_vars

C6_Witness ==
    /\ response = Ok("DeactivateOffspring", "Missing offspring information", <<>>)
    /\ \A index \in IndexSpace : index \notin DOMAIN cur /\ Deactivated(index)

\* C7: a record that has been moved to the inactive log is in the global active
\* set no more, nor in any owner's active set.
C7_DeactivationOneWay ==
    \A k \in 1 .. Len(log_rid) :
        /\ IndexOf(log_rid[k]) \notin active
        /\ \A o \in DOMAIN owners_active : IndexOf(log_rid[k]) \notin owners_active[o]

C9_OnlyTheChildDeactivates ==
    [][response'.op = "DeactivateOffspring" =>
         \A sender \in Addr, index \in WideIndexSpace :
            (\E owner \in Addr :
                try_deactivate_offspring(Env(0, 0, sender), index, owner))
            => ( /\ response'.status = "Ok"
                 /\ \/ ( /\ index \in DOMAIN cur
                         /\ records[cur[index]].address = sender
                         /\ index \in active )
                    \/ (response'.text # "" /\ UNCHANGED <<storage, history>>) )]_vars

C9_Witness ==
    /\ response = Ok("DeactivateOffspring", "Unauthorized", <<>>)
    /\ DOMAIN cur # {}

\* C10: a DeactivateOffspring sent by the registered, active offspring that names
\* an owner other than the one the record was registered under fails and
\* changes no index.
C10_OwnerMismatchRejected ==
    [][response'.op = "DeactivateOffspring" =>
         \A sender \in Addr, index \in WideIndexSpace, owner \in Addr :
            ( /\ index \in DOMAIN cur
              /\ records[cur[index]].address = sender
              /\ records[cur[index]].owner # owner
              /\ try_deactivate_offspring(Env(0, 0, sender), index, owner) )
            => ( /\ response'.text # ""
                 /\ UNCHANGED <<active, active_info, owners_active, inactive_info,
                                owners_inactive>> )]_vars

\* C11: while the factory is stopped every CreateOffspring fails and changes
\* nothing (ticket, seed, index counter, no message dispatched); while it is not
\* stopped, in particular after the admin has unpaused it, CreateOffspring
\* succeeds and dispatches the init message.
C11_PausedCreateRejected ==
    [][response'.op = "CreateOffspring" =>
         /\ config.stopped =>
               /\ response'.status = "Err"
               /\ response'.messages = <<>>
               /\ UNCHANGED <<storage, history>>
         /\ ~config.stopped =>
               /\ response'.status = "Ok"
               /\ Len(response'.messages) = 1
               /\ pending' = Some(response'.messages[1].password)
               /\ config'.index = config.index + 1 ]_vars

C11_Witness ==
    /\ response = Err("CreateOffspring", "The factory has been stopped")
    /\ config.stopped
    /\ config.index = 0

\* C12: a SetStatus or NewOffspringContract from a sender other than the admin
\* recorded at Init fails and leaves the configuration unchanged; from the admin
\* it succeeds and sets exactly the stopped flag, respectively the template.
C12_AdminOnly ==
    [][ /\ response'.op = "SetStatus" =>
              \A sender \in Addr, stop \in BOOLEAN :
                 try_set_status(Env(0, 0, sender), stop) =>
                    IF sender = InitAdmin
                    THEN /\ response'.status = "Ok"
                         /\ config' = [config EXCEPT !.stopped = stop]
                    ELSE response'.status = "Err" /\ config' = config
        /\ response'.op = "NewOffspringContract" =>
              \A sender \in Addr, offspring_contract \in CodeIds :
                 try_new_contract(Env(0, 0, sender), offspring_contract) =>
                    IF sender = InitAdmin
                    THEN /\ response'.status = "Ok"
                         /\ config' = [config EXCEPT !.version = offspring_contract]
                    ELSE response'.status = "Err" /\ config' = config
        /\ config'.admin = InitAdmin ]_vars

C12_Witness ==
    /\ response = Err("SetStatus", "This is an admin command")
    /\ config.admin = InitAdmin
\* a query of the given kind has just been answered
Answered(kind) ==
    /\ queried' # queried
    /\ queried' # None
    /\ queried'[1].msg.kind = kind
\* the key is the one stored (as its hash) for the address
KeyMatches(store, address, viewing_key) ==
    address \in DOMAIN store /\ store[address] = sha_256(viewing_key)

\* C13: IsKeyValid answers true exactly when a key is stored for the address and
\* the hash of the candidate equals the stored hash; with no key stored and with
\* a different key stored it gives the same answer, is_valid false.
C13_IsKeyValidExact ==
    [][Answered("IsKeyValid") =>
         LET q == queried'[1]
         IN q.answer = [kind |-> "IsKeyValid",
                        is_valid |-> KeyMatches(viewing_keys, q.msg.address,
                                                q.msg.viewing_key)] ]_vars

C13_Witness ==
    /\ queried # None
    /\ queried[1].msg.kind = "IsKeyValid"
    /\ queried[1].msg.address \notin DOMAIN viewing_keys
    /\ sha_256(queried[1].msg.viewing_key) = ZeroKey
    /\ ~queried[1].answer.is_valid

\* C14: on every path of is_key_valid exactly one hash-and-compare of the
\* candidate is made: with the stored hash when a key is stored, with the
\* all-zero value when none is.
C14_OneCompareOnEveryPath ==
    [][Answered("IsKeyValid") =>
         LET q == queried'[1]
         IN /\ Len(q.checked) = 1
            /\ q.checked[1] = IF q.msg.address \in DOMAIN viewing_keys
                              THEN viewing_keys[q.msg.address]
                              ELSE ZeroKey ]_vars

C14_Witness ==
    /\ queried # None
    /\ queried[1].msg.kind = "IsKeyValid"
    /\ queried[1].msg.address \notin DOMAIN viewing_keys
    /\ queried[1].checked = <<ZeroKey>>
    /\ DOMAIN viewing_keys # {}

\* C15: after a SetViewingKey(key) from a sender the key is valid for the sender,
\* no other key is, and the keys stored for all other addresses are as before.
C15_SetKeyOverwrites ==
    [][response'.op = "SetViewingKey" =>
         \A sender \in Addr, key \in HashSpace :
            try_set_key(Env(0, 0, sender), key) =>
               /\ is_key_valid(viewing_keys', sender, key).is_valid
               /\ \A other_key \in HashSpace \ {key} :
                     ~is_key_valid(viewing_keys', sender, other_key).is_valid
               /\ \A other \in Addr \ {sender} :
                     /\ other \in DOMAIN viewing_keys' <=> other \in DOMAIN viewing_keys
                     /\ other \in DOMAIN viewing_keys =>
                           viewing_keys'[other] = viewing_keys[other] ]_vars

C15_Witness ==
    /\ response.op = "SetViewingKey"
    /\ DOMAIN viewing_keys = Addr
    /\ \E a, b \in Addr : viewing_keys[a] # viewing_keys[b]

\* C16: the key CreateViewingKey returns to its sender is valid for the sender
\* right after the call, and what is stored is the hash of the key, not the key.
C16_CreatedKeyValidates ==
    [][response'.op = "CreateViewingKey" =>
         \A sender \in Addr :
            (\E height \in BlockSpace, time \in BlockSpace, entropy \in EntropySpace :
                try_create_key(Env(height, time, sender), entropy))
            => LET key == response'.messages[1]
               IN /\ is_key_valid(viewing_keys', sender, key).is_valid
                  /\ viewing_keys'[sender] = to_hashed(key)
                  /\ viewing_keys'[sender] # key ]_vars

C16_Witness ==
    /\ response.op = "CreateViewingKey"
    /\ \E a \in DOMAIN viewing_keys :
          is_key_valid(viewing_keys, a, response.messages[1]).is_valid

\* the records registered under an owner whose info is stored (active), and
\* the owner's deactivated records, the latest deactivation first
LiveRecords(owner) ==
    {r \in RecIds : records[r].owner = owner /\ \E i \in DOMAIN cur : cur[i] = r}
InactiveRecords(owner) ==
    LET mine == SelectSeq(log_rid, LAMBDA r : records[r].owner = owner)
    IN [k \in 1 .. Len(mine) |-> mine[Len(mine) - k + 1]]
ActiveListOf(owner) ==
    IF LiveRecords(owner) = {}
    THEN {None}
    ELSE {Some([k \in 1 .. Cardinality(LiveRecords(owner)) |->
                  [address |-> records[ord[k]].address,
                   password |-> records[ord[k]].password]]) :
             ord \in Orderings(LiveRecords(owner))}
InactiveListOf(owner) ==
    IF InactiveRecords(owner) = <<>>
    THEN None
    ELSE Some([k \in 1 .. Len(InactiveRecords(owner)) |->
                 [index |-> None,
                  address |-> records[InactiveRecords(owner)[k]].address,
                  password |-> records[InactiveRecords(owner)[k]].password]])

MinIndex(page) ==
    CHOOSE i \in {page[k].index[1] : k \in 1 .. Len(page)} :
        \A k \in 1 .. Len(page) : i <= page[k].index[1]

\* the pages a reader collects: the first with no before, each next one with
\* before = the smallest index of the previous page, until a page is empty
\* (at most fuel pages)
RECURSIVE Pages(_, _, _)
Pages(before, page_size, fuel) ==
    IF fuel = 0
    THEN <<>>
    ELSE LET page == try_list_inactive(before, Some(page_size)).inactive
         IN IF page = None
            THEN <<>>
            ELSE page[1] \o Pages(Some(MinIndex(page[1])), page_size, fuel - 1)

C20_SecondCreateOverwritesTicket ==
    [][ /\ (response'.op = "CreateOffspring" /\ response'.status = "Ok"
              /\ pending # None)
           => pending' = Some(response'.messages[1].password)
        /\ (response'.op = "RegisterOffspring" /\ issued # None
              /\ config.index - Len(records) >= 2)
           => \A password \in HashSpace :
                 (\E sender \in Addr, owner \in Addr, index \in WideIndexSpace :
                     try_register_offspring(Env(0, 0, sender), owner, index, password))
                 => IF password = issued[1]
                    THEN /\ response'.status = "Ok"
                         /\ Len(records') = Len(records) + 1
                         /\ records'[Len(records')].password = password
                         /\ Len(records') < config'.index
                    ELSE /\ response'.status = "Err"
                         /\ UNCHANGED <<storage, history>> ]_vars

C20_Witness ==
    /\ Succeeded("RegisterOffspring")
    /\ config.index = 2
    /\ Len(records) = 1

\* C21: the offspring's init stores its state with active = true and returns
\* exactly one message, a RegisterOffspring addressed to the factory named
\* in the init message and carrying that message's index, password and owner.
C21_InitRegistersWithFactory ==
    [][\A msg \in InitMsgs :
        (/\ state = None
         /\ \E sender \in Addr, address \in Addr :
                offspring_init(OffspringEnv(sender, address), msg))
        => /\ state' # None
           /\ state'[1].active
           /\ state'[1].index = msg.index
           /\ state'[1].owner = msg.owner
           /\ offspring_response'.status = "Ok"
           /\ Len(offspring_response'.messages) = 1
           /\ LET m == offspring_response'.messages[1]
              IN /\ m.kind = "RegisterOffspring"
                 /\ m.to = msg.factory.address
                 /\ m.code_hash = msg.factory.code_hash
                 /\ m.owner = msg.owner
                 /\ m.offspring = [index |-> msg.index,
                                   password |-> msg.password]]_vars

C21_Witness ==
    /\ offspring_response.op = "Init"
    /\ offspring_response.status = "Ok"
    /\ state # None
    /\ state[1].active
    /\ Len(offspring_response.messages) = 1
    /\ offspring_response.messages[1].kind = "RegisterOffspring"
    /\ offspring_response.messages[1].owner = state[1].owner

\* the active flag of the offspring, as Increment, Reset and the query read it
IsActive == state # None /\ state[1].active

\* C22: Deactivate is owner-only.  Sent to an active offspring by anyone but
\* the owner it fails with Unauthorized, leaves active true and dispatches
\* nothing; sent by the owner it sets active = false and dispatches exactly
\* one DeactivateOffspring carrying the offspring's index and owner.
C22_DeactivateOwnerOnly ==
    [][\A sender \in Addr :
        (/\ IsActive
         /\ try_deactivate(OffspringEnv(sender, state[1].offspring_addr)))
        => IF sender # state[1].owner
           THEN /\ offspring_response'.status = "Err"
                /\ offspring_response'.text = "Unauthorized"
                /\ offspring_response'.messages = <<>>
                /\ IsActive'
           ELSE /\ offspring_response'.status = "Ok"
                /\ ~IsActive'
                /\ Len(offspring_response'.messages) = 1
                /\ LET m == offspring_response'.messages[1]
                   IN /\ m.kind = "DeactivateOffspring"
                      /\ m.index = state[1].index
                      /\ m.owner = state[1].owner]_vars

AddsRecord ==
    \/ active' \ active # {}
    \/ \E owner \in DOMAIN owners_active' :
           owners_active'[owner] \
               (IF owner \in DOMAIN owners_active
                THEN owners_active[owner] ELSE {}) # {}
    \/ \E index \in DOMAIN active_info' :
           \/ index \notin DOMAIN active_info
           \/ active_info'[index] # active_info[index]

\* C25: a successful RegisterOffspring is the only operation that adds a
\* record: no other handle message, and no failed RegisterOffspring, adds an
\* index to the global active set or to an owner's active set or stores new
\* active offspring info.
C25_OnlyRegisterAddsRecords ==
    [][AddsRecord =>
        (response'.op = "RegisterOffspring" /\ response'.status = "Ok")]_vars

C25_Witness ==
    /\ Succeeded("RegisterOffspring")
    /\ active # {}
    /\ DOMAIN active_info # {}
    /\ \E owner \in DOMAIN owners_active : owners_active[owner] # {}

\* the senders that are not the admin
NonAdmins == Addr \ {config.admin}

\* the step is a handle message other than CreateOffspring sent by someone
\* who is not the admin, and it changes the configuration
NonAdminChangesConfig ==
    \/ /\ response'.op = "RegisterOffspring"
       /\ \E sender \in NonAdmins, owner \in Addr, index \in WideIndexSpace,
             password \in HashSpace :
              try_register_offspring(Env(0, 0, sender), owner, index, password)
       /\ config' # config
    \/ /\ response'.op = "DeactivateOffspring"
       /\ \E sender \in NonAdmins, index \in WideIndexSpace, owner \in Addr :
              try_deactivate_offspring(Env(0, 0, sender), index, owner)
       /\ config' # config
    \/ /\ response'.op = "NewOffspringContract"
       /\ \E sender \in NonAdmins, offspring_contract \in CodeIds :
              try_new_contract(Env(0, 0, sender), offspring_contract)
       /\ config' # config
    \/ /\ response'.op = "SetStatus"
       /\ \E sender \in NonAdmins, stop \in BOOLEAN :
              try_set_status(Env(0, 0, sender), stop)
       /\ config' # config
    \/ /\ response'.op = "CreateViewingKey"
       /\ \E sender \in NonAdmins, height \in BlockSpace, time \in BlockSpace,
             entropy \in EntropySpace :
              try_create_key(Env(height, time, sender), entropy)
       /\ config' # config
    \/ /\ response'.op = "SetViewingKey"
       /\ \E sender \in NonAdmins, key \in HashSpace :
              try_set_key(Env(0, 0, sender), key)
       /\ config' # config

\* the step is a CreateOffspring sent by someone who is not the admin
NonAdminCreates ==
    /\ response'.op = "CreateOffspring"
    /\ \E sender \in NonAdmins, height \in BlockSpace, time \in BlockSpace,
          entropy \in EntropySpace, owner \in Addr :
           try_create_offspring(Env(height, time, sender), entropy, owner)

\* C26 as stated: the registry configuration (template, admin, paused flag,
\* next-index counter) is mutated only by admin operations: no operation sent
\* by a non-admin changes any of its fields.
C26_ConfigOnlyAdmin ==
    [][/\ ~NonAdminChangesConfig
       /\ NonAdminCreates => config' = config]_vars

\* C26, amended: no operation sent by a non-admin changes the template, the
\* admin or the paused flag; the next-index counter is changed by a
\* non-admin only through a successful CreateOffspring, which advances it
\* by one.
C26_ConfigFrame ==
    [][/\ ~NonAdminChangesConfig
       /\ NonAdminCreates =>
             IF response'.status = "Ok"
             THEN config' = [config EXCEPT !.index = config.index + 1]
             ELSE config' = config]_vars

\* a CreateOffspring has advanced the counter, and a SetStatus from someone
\* who is not the admin was refused
C26_Witness ==
    /\ config.index > 0
    /\ ~config.stopped
    /\ response.op = "SetStatus"
    /\ response.status = "Err"

\* C27: each successful CreateOffspring replaces the stored PRNG seed with
\* the fresh output of the generator and sets the pending ticket to the hash
\* of the new seed: the pending password is sha_256 of the stored seed, the
\* stored seed differs from it, and the dispatched init message carries the
\* same password.
C27_CreateRefreshesSeed ==
    [][(response'.op = "CreateOffspring" /\ response'.status = "Ok")
        => /\ \E sender \in Addr, height \in BlockSpace, time \in BlockSpace,
                 entropy \in EntropySpace :
                  prng_seed' = new_entropy(Env(height, time, sender),
                                           prng_seed, entropy)
           /\ pending' = Some(sha_256(prng_seed'))
           /\ prng_seed' # pending'[1]
           /\ Len(response'.messages) = 1
           /\ response'.messages[1].password = pending'[1]]_vars

C27_Witness ==
    /\ Succeeded("CreateOffspring")
    /\ pending = Some(sha_256(prng_seed))
    /\ response.messages[1].password = sha_256(prng_seed)

\* C28: listing by owner is the global listing scoped to the owner.  For
\* every owner, the inactive list ListMyOffspring returns is exactly the
\* subsequence of the global inactive log whose records belong to that
\* owner, most recently deactivated first, and the active list is exactly
\* the owner's members of the global active set.
C28_OwnerListingIsScopedGlobal ==
    \A address \in Addr, viewing_key \in HashSpace :
        \A answer \in try_list_my(address, viewing_key, None) :
            answer.kind = "ListMyOffspring"
            => /\ answer.inactive = InactiveListOf(address)
               /\ answer.active \in ActiveListOf(address)

\* the answers ListMyOffspring gives for a key that is not valid, for the
\* addresses with a key set and for those with none
RefusalsWithKey ==
    UNION {try_list_my(q[1], q[2], q[3]) :
              q \in {r \in Addr \X HashSpace \X Filters :
                        /\ r[1] \in DOMAIN viewing_keys
                        /\ ~KeyMatches(viewing_keys, r[1], r[2])}}
RefusalsWithoutKey ==
    UNION {try_list_my(q[1], q[2], q[3]) :
              q \in {r \in Addr \X HashSpace \X Filters :
                        r[1] \notin DOMAIN viewing_keys}}

\* C29: authentication failures are generic.  A failed RegisterOffspring
\* returns the same error whether no ticket is pending or the password is
\* wrong (the step's error is the one returned when no ticket is pending),
\* and a failed ListMyOffspring returns the same answer whether no viewing
\* key is set or the key is wrong.
C29_GenericAuthFailure ==
    [][/\ (response'.op = "RegisterOffspring" /\ response'.status = "Err")
          => response'.text = "Unable to authenticate registration."
       /\ Cardinality(RefusalsWithKey \cup RefusalsWithoutKey) <= 1]_vars

\* the lists of the infos stored under the indices of a set, one per order
InfoLists(indices) ==
    {[k \in 1 .. Cardinality(indices) |->
         [address |-> records[cur[ord[k]]].address,
          password |-> records[cur[ord[k]]].password]] :
        ord \in Orderings(indices)}

CountRefusals ==
    {query_count(state[1], q[1], q[2]) : q \in Addr \X HashSpace}
        \ {[kind |-> "CountResponse", count |-> state[1].count]}

\* C31: GetCount(address, viewing_key) returns the count if and only if the
\* address is the offspring's owner and the key is the one the factory
\* holds for the address; every refusal carries the same error message; and
\* the answer is the same for an active and for an inactive offspring.
C31_GetCountOwnerWithKey ==
    [][Answered("GetCount") =>
        LET q == queried'[1]
            st == state[1]
        IN /\ (q.answer.kind = "CountResponse")
                  <=> (/\ q.msg.address = st.owner
                       /\ KeyMatches(viewing_keys, q.msg.address,
                                     q.msg.viewing_key))
           /\ q.answer.kind = "CountResponse" => q.answer.count = st.count
           /\ Cardinality(CountRefusals) <= 1
           /\ q.answer = query_count([st EXCEPT !.active = FALSE],
                                     q.msg.address, q.msg.viewing_key)
           /\ q.answer = query_count([st EXCEPT !.active = TRUE],
                                     q.msg.address, q.msg.viewing_key)]_vars

\* the owner was shown the count while another address holds a key too
C31_Witness ==
    /\ queried # None
    /\ queried[1].msg.kind = "GetCount"
    /\ queried[1].answer.kind = "CountResponse"
    /\ queried[1].msg.address = state[1].owner
    /\ \E address \in DOMAIN viewing_keys : address # state[1].owner

\* C32: in every reachable state the size of the global active set plus the
\* length of the global inactive log is at most the number of successful
\* registrations, which is at most the configuration's index counter (the
\* number of successful CreateOffspring calls, C33).
C32_RecordsBoundedByCreates ==
    /\ Cardinality(active) + Len(inactive_info) <= Len(records)
    /\ Len(records) <= config.index

C32_Witness ==
    /\ Cardinality(active) + Len(inactive_info) = config.index
    /\ config.index = MaxCreates
    /\ Len(inactive_info) >= 1

C34_RegisterOnlyAtFreshIssuedIndex ==
    [][(/\ response'.op = "RegisterOffspring"
        /\ response'.status = "Ok"
        /\ Len(records') = Len(records) + 1)
        => LET index == records'[Len(records')].index
           IN /\ index < config.index
              /\ index \notin DOMAIN active_info
              /\ ~Deactivated(index)]_vars

\* C35: the pending ticket is changed only by a successful CreateOffspring,
\* which sets it, and by a successful RegisterOffspring, which clears it.
\* Every other handle message, every query and every failed operation
\* leaves it as it is, so an issued ticket stays valid until it is consumed
\* or overwritten.
C35_TicketFrame ==
    [][pending' # pending
        => \/ /\ response'.op = "CreateOffspring"
              /\ response'.status = "Ok"
              /\ pending' # None
           \/ /\ response'.op = "RegisterOffspring"
              /\ response'.status = "Ok"
              /\ response'.text = "offspring_address"
              /\ pending' = None]_vars

\* a ticket is still pending after the admin has paused the factory and a
\* RegisterOffspring with another password was refused
C35_Witness ==
    /\ pending # None
    /\ config.stopped
    /\ response.op = "RegisterOffspring"
    /\ response.status = "Err"
    /\ viewing_keys # EmptyMap

\* C36: pausing blocks only creation.  While the factory is paused a
\* CreateOffspring fails, a RegisterOffspring carrying the pending ticket
\* (issued before the pause) still succeeds, and a DeactivateOffspring sent
\* by an active registered offspring for its own index still succeeds.
C36_PauseBlocksOnlyCreate ==
    [][config.stopped =>
        /\ response'.op = "CreateOffspring" => response'.status = "Err"
        /\ (response'.op = "RegisterOffspring" /\ pending # None)
           => \A sender \in Addr, owner \in Addr, index \in IndexSpace :
                 try_register_offspring(Env(0, 0, sender), owner, index,
                                        pending[1])
                 => /\ response'.status = "Ok"
                    /\ index \in active'
                    /\ pending' = None
        /\ response'.op = "DeactivateOffspring"
           => \A index \in active \cap DOMAIN active_info, owner \in Addr :
                 try_deactivate_offspring(
                     Env(0, 0, active_info[index].address), index, owner)
                 => /\ response'.status = "Ok"
                    /\ response'.text = ""
                    /\ index \notin active'
                    /\ Len(inactive_info') = Len(inactive_info) + 1]_vars

\* a registered offspring was deactivated while the factory was paused
C36_Witness ==
    /\ config.stopped
    /\ Succeeded("DeactivateOffspring")
    /\ response.text = ""
    /\ Len(inactive_info) = 1
    /\ pending = None

\* everything the factory stores except the viewing keys is left as it is,
\* and so is the key of every address but the sender's
OnlyKeyOf(sender) ==
    /\ UNCHANGED <<config, prng_seed, pending, active, active_info,
                   owners_active, inactive_info, owners_inactive>>
    /\ DOMAIN viewing_keys' = DOMAIN viewing_keys \cup {sender}
    /\ \A address \in DOMAIN viewing_keys \ {sender} :
           viewing_keys'[address] = viewing_keys[address]

\* C37: CreateViewingKey and SetViewingKey change only the sender's stored
\* viewing-key hash: the PRNG seed (which CreateViewingKey reads), the
\* pending ticket, the configuration and all membership indices stay as
\* they are.
C37_KeyMessagesFrame ==
    [][/\ response'.op = "CreateViewingKey"
          => \A sender \in Addr :
                (\E height \in BlockSpace, time \in BlockSpace,
                    entropy \in EntropySpace :
                     try_create_key(Env(height, time, sender), entropy))
                => OnlyKeyOf(sender)
       /\ response'.op = "SetViewingKey"
          => \A sender \in Addr :
                (\E key \in HashSpace : try_set_key(Env(0, 0, sender), key))
                => OnlyKeyOf(sender)]_vars

\* a key was created while a ticket was pending, both addresses holding one
C37_Witness ==
    /\ Succeeded("CreateViewingKey")
    /\ pending # None
    /\ DOMAIN viewing_keys = Addr

\* the records the factory registered for the instantiated offspring
RecordsOfOffspring ==
    {r \in RecIds : /\ state # None
                    /\ IndexOf(r) = state[1].index
                    /\ records[r].address = state[1].offspring_addr
                    /\ records[r].password = state[1].password}

====
